---- MODULE Spec2Model ----
(***************************************************************************)
(* ClassicUPS/ups.py: the UPS XML client.  The model covers the Shipment   *)
(* constructor (request document construction and the ship_confirm /       *)
(* ship_accept exchange), the Shipment result accessors and the            *)
(* TrackingInfo query with its derived properties.                         *)
(*                                                                         *)
(* Python values are modelled as records of one shape per position, so     *)
(* that a value that may be an int, a str or a tuple is tagged by t.       *)
(* A str whose characters matter is a sequence of one-character strings.   *)
(***************************************************************************)
EXTENDS Integers, Sequences, FiniteSets, TLC

\* ------------------------------------------------------------------ bounds
MaxRefs == 2            \* longest reference_numbers list
MaxPackages == 2        \* most package_infos of one shipment
MaxPackageResults == 2  \* most PackageResults of one accept response
MaxActivities == 3      \* most Activity records of one track response
MaxCalls == 2           \* most recorded accesses of tracking_numbers

\* ------------------------------------------------------- python value model
PyInt(i) == [t |-> "int", n |-> i, s |-> <<>>, items |-> <<>>]
PyStr(chars) == [t |-> "str", n |-> 0, s |-> chars, items |-> <<>>]
PyTuple(xs) == [t |-> "tuple", n |-> 0, s |-> <<>>, items |-> xs]

\* an optional entry of a dict: present with a value, or absent
Some(v) == [has |-> TRUE, v |-> v]
Missing(dflt) == [has |-> FALSE, v |-> dflt]

\* exceptions: kind is the Python exception class, msg its argument
NoError == [kind |-> "", msg |-> ""]
Raised(kind, msg) == [kind |-> kind, msg |-> msg]

ListIndexMsg == "list indices must be integers, not str"

\* ---------------------------------------------------------------- Shipment
DCIS_TYPES ==
    ("no_signature" :> 1) @@ ("signature_required" :> 2) @@
    ("adult_signature_required" :> 3) @@ ("usps_delivery_confiratmion" :> 4)

\* self.DCIS_TYPES[delivery_confirmation]: KeyError on an unknown key
DCISLookupNoCheck(key) ==
    IF key \in DOMAIN DCIS_TYPES
        THEN [err |-> NoError, v |-> DCIS_TYPES[key]]
        ELSE [err |-> NoError, v |-> 0]

DCISLookup(key) ==
    IF key \in DOMAIN DCIS_TYPES
        THEN [err |-> NoError, v |-> DCIS_TYPES[key]]
        ELSE [err |-> Raised("KeyError", key), v |-> 0]

\* `ref_code, ref_number = ref_number`: a 2-tuple unpacks, and so does any
\* other iterable of exactly two items, a str of two characters included;
\* anything else raises and the bare except keeps the enumerate() values
Unpack(v) ==
    IF v.t = "tuple" /\ Len(v.items) = 2
        THEN [ok |-> TRUE, a |-> v.items[1], b |-> v.items[2]]
    ELSE IF v.t = "str" /\ Len(v.s) = 2
        THEN [ok |-> TRUE, a |-> PyStr(<<v.s[1]>>), b |-> PyStr(<<v.s[2]>>)]
    ELSE [ok |-> FALSE, a |-> v, b |-> v]

\* the loop building reference_dict
ReferenceDict(reference_numbers) ==
    [i \in 1..Len(reference_numbers) |->
        LET u == Unpack(reference_numbers[i]) IN
        IF u.ok THEN [Code |-> u.a, Value |-> u.b]
                ELSE [Code |-> PyInt(i), Value |-> reference_numbers[i]]]

\* truthiness of the optional str argument delivery_confirmation
Truthy(opt) == opt.has /\ opt.v # ""

\* one entry of ups_packages
UpsPackage(package_info) ==
    [Weight |-> package_info.weight,
     Dimensions |-> IF package_info.fill_dimension
                        THEN Some(package_info.length) ELSE Missing(0),
     PackageServiceOptions |-> [DeliveryConfirmation |-> Missing(0)],
     ReferenceNumber |-> Missing(<<>>)]

\* package_infos normalised to a list, then one block per package: the
\* Package entry of the request is a Python list whatever was passed
UpsPackages(package_infos) ==
    [t |-> "list",
     items |-> [i \in 1..Len(package_infos.items) |->
                    UpsPackage(package_infos.items[i])]]

\* the shipping_request literal
ShippingRequest(a, shipper_number) ==
    [Shipment |->
        [ShipperNumber |-> shipper_number,
         ShipperCountry |-> a.from_country,
         ShipToCountry |-> a.to_country,
         Package |-> UpsPackages(a.package_infos),
         Description |-> Missing(""),
         ReferenceNumber |-> Missing(<<>>)],
     LabelPrintMethod |-> a.file_format]

Ok(doc) == [err |-> NoError, doc |-> doc]
Fail(e, doc) == [err |-> e, doc |-> doc]

\* `if delivery_confirmation:` the right-hand side is evaluated first, then
\* the target shipping_request[..]['Package']['PackageServiceOptions'],
\* a str subscript of Package
SetDeliveryConfirmation(doc, dc) ==
    LET code == DCISLookup(dc.v)
        pkg == doc.Shipment.Package IN
    IF ~Truthy(dc) THEN Ok(doc)
    ELSE IF code.err # NoError THEN Fail(code.err, doc)
    ELSE IF pkg.t = "list" THEN Fail(Raised("TypeError", ListIndexMsg), doc)
    ELSE Ok([doc EXCEPT !.Shipment.Package.items =
                [i \in DOMAIN pkg.items |->
                    [pkg.items[i] EXCEPT
                        !.PackageServiceOptions.DeliveryConfirmation =
                            Some(code.v)]]])

\* `if reference_numbers:` placement by the two country codes
SetReferenceNumbers(doc, a) ==
    LET reference_dict == ReferenceDict(a.reference_numbers)
        pkg == doc.Shipment.Package IN
    IF a.reference_numbers = <<>> THEN Ok(doc)
    ELSE IF a.from_country = "US" /\ a.to_country = "US"
        THEN IF pkg.t = "list"
                THEN Fail(Raised("TypeError", ListIndexMsg), doc)
                ELSE Ok([doc EXCEPT !.Shipment.Package.items =
                        [i \in DOMAIN pkg.items |->
                            [pkg.items[i] EXCEPT
                                !.ReferenceNumber = Some(reference_dict)]]])
        ELSE Ok([doc EXCEPT !.Shipment.Description = Some(a.description),
                            !.Shipment.ReferenceNumber = Some(reference_dict)])

\* the constructor up to the first transmission
BuildRequest(a, shipper_number) ==
    LET d0 == ShippingRequest(a, shipper_number)
        r1 == SetDeliveryConfirmation(d0, a.delivery_confirmation)
        r3 == SetReferenceNumbers(r1.doc, a) IN
    IF r1.err # NoError THEN r1 ELSE r3

\* ------------------------------------------------- UPSResult / transport
\* UPSResult.dict_response: the XML parsed again on every access; a body
\* that is not XML makes xmltodict.parse raise
DictResponse(resp) ==
    IF resp.kind = "malformed"
        THEN Raised("ExpatError", "syntax error")
        ELSE NoError

\* UPSConnection._transmit_request: urlopen may fail; the response is
\* wrapped unparsed, and parsed here only to be logged when debug is set
TransmitRequest(dbg, resp) ==
    IF resp.kind = "transport_failure" THEN Raised("IOError", "urlopen")
    ELSE IF dbg THEN DictResponse(resp)
    ELSE NoError

\* `'ShipmentDigest' not in ...['ShipmentConfirmResponse']`
DigestPresentAlways(resp) == TRUE

DigestPresent(resp) == resp.hasDigest

\* the carrier's rejection: ...['Response']['Error']['ErrorDescription']
CarrierErrorGeneric(resp) ==
    IF resp.hasError THEN Raised("Exception", "ship_confirm failed")
                     ELSE Raised("KeyError", "Error")

CarrierError(resp) ==
    IF resp.hasError THEN Raised("Exception", resp.errDesc)
                     ELSE Raised("KeyError", "Error")

\* the constructor after the confirm response is stored: the exception it
\* raises, if any
CheckConfirm(resp) ==
    IF DictResponse(resp) # NoError THEN DictResponse(resp)
    ELSE IF ~resp.hasRoot THEN Raised("KeyError", "ShipmentConfirmResponse")
    ELSE IF ~DigestPresent(resp) THEN CarrierError(resp)
    ELSE NoError

\* the ship_accept_request literal
ShipAcceptRequestNoDigest(confirm) ==
    [RequestAction |-> "ShipAccept",
     CustomerContext |-> "shipment accept reference",
     ShipmentDigest |-> ""]

ShipAcceptRequest(confirm) ==
    [RequestAction |-> "ShipAccept",
     CustomerContext |-> "shipment accept reference",
     ShipmentDigest |-> confirm.digest]

\* ------------------------------------------------------------ input sets
SeqsUpTo(S, n) == UNION {[1..k -> S] : k \in 0..n}

RefEntries ==
    {PyStr(<<"A">>), PyStr(<<"P", "O">>),
     PyTuple(<<PyStr(<<"I", "K">>), PyStr(<<"7">>)>>)}

PackageInfos ==
    {[weight |-> 2, fill_dimension |-> TRUE, length |-> 10],
     [weight |-> 5, fill_dimension |-> FALSE, length |-> 0]}

\* a bare dict, or a list of one or more dicts
PackageInfoArgs ==
    {[t |-> "dict", items |-> <<p>>] : p \in PackageInfos} \cup
    {[t |-> "list", items |-> ps] :
        ps \in SeqsUpTo(PackageInfos, MaxPackages) \ {<<>>}}

DeliveryConfirmations ==
    {Missing(""), Some(""), Some("signature_required"),
     Some("usps_delivery_confiratmion"), Some("signature")}

AllArgs ==
    [from_country : {"US", "FR"},
     to_country : {"US", "DE"},
     package_infos : PackageInfoArgs,
     file_format : {"EPL"},
     reference_numbers : SeqsUpTo(RefEntries, MaxRefs),
     description : {"", "goods"},
     delivery_confirmation : DeliveryConfirmations]

DefaultArgs ==
    [from_country |-> "US", to_country |-> "US",
     package_infos |-> [t |-> "dict", items |-> <<[weight |-> 2,
                        fill_dimension |-> TRUE, length |-> 10]>>],
     file_format |-> "EPL", reference_numbers |-> <<>>,
     description |-> "", delivery_confirmation |-> Missing("")]

ShipperNumber == "A1B2C3"

Xml(hasRoot, hasDigest, digest, hasError, errDesc) ==
    [kind |-> "xml", hasRoot |-> hasRoot, hasDigest |-> hasDigest,
     digest |-> digest, hasError |-> hasError, errDesc |-> errDesc]

NoResponse == [kind |-> "none", hasRoot |-> FALSE, hasDigest |-> FALSE,
               digest |-> "", hasError |-> FALSE, errDesc |-> ""]

\* what the ship_confirm endpoint may answer: nothing (the transport
\* fails), a body that is not XML, XML without ShipmentConfirmResponse,
\* a rejection with or without an error description, a digest (with or
\* without a warning in Response/Error)
ConfirmResponses ==
    {[NoResponse EXCEPT !.kind = "transport_failure"],
     [NoResponse EXCEPT !.kind = "malformed"],
     Xml(FALSE, FALSE, "", FALSE, ""),
     Xml(TRUE, FALSE, "", FALSE, ""),
     Xml(TRUE, FALSE, "", TRUE, "Invalid postal code"),
     Xml(TRUE, FALSE, "", TRUE, "Missing weight"),
     Xml(TRUE, TRUE, "rO0ABX", FALSE, ""),
     Xml(TRUE, TRUE, "c2hpcA", FALSE, ""),
     Xml(TRUE, TRUE, "c2hpcA", TRUE, "Address corrected")}

PackageResultSet ==
    {[TrackingNumber |-> "1Z0001", GraphicImage |-> <<"R", "0", "l", "G">>,
      LabelImageFormatCode |-> Some("GIF")],
     [TrackingNumber |-> "1Z0002",
      GraphicImage |-> <<"R", "V", "B", "M", "Q", "Q", "=", "=">>,
      LabelImageFormatCode |-> Missing("")]}

Accept(kind, hasResults, results) ==
    [kind |-> kind, hasResults |-> hasResults, results |-> results]

NoResults == [t |-> "dict", items |-> <<>>]

\* PackageResults as xmltodict gives it: one element is a dict, several
\* elements are a list
AcceptXml ==
    {Accept("xml", TRUE, [t |-> "dict", items |-> <<r>>]) :
        r \in PackageResultSet} \cup
    {Accept("xml", TRUE, [t |-> "list", items |-> rs]) :
        rs \in {q \in SeqsUpTo(PackageResultSet, MaxPackageResults) :
                    Len(q) >= 2}}

AcceptFailures ==
    {Accept("transport_failure", FALSE, NoResults),
     Accept("malformed", FALSE, NoResults),
     Accept("xml", FALSE, NoResults)}

AcceptResponses == AcceptXml \cup AcceptFailures

\* the accept answers of the construction runs: the failures, one single
\* package result and one pair
AcceptSample ==
    AcceptFailures \cup
    {Accept("xml", TRUE, [t |-> "dict", items |-> <<r>>]) :
        r \in {q \in PackageResultSet : q.TrackingNumber = "1Z0001"}} \cup
    {Accept("xml", TRUE, [t |-> "list", items |-> <<r, r>>]) :
        r \in {q \in PackageResultSet : q.TrackingNumber = "1Z0002"}}

\* ------------------------------------------------------------------ state
VARIABLES
    debug,               \* UPSConnection.debug
    pc,                  \* where the running or last Shipment(...) call is
    args,                \* the arguments of that call
    file_format,         \* Shipment.file_format
    shipping_request,    \* the confirm document, once built
    ship_accept_request, \* the accept document, once built
    confirm_result,      \* Shipment.confirm_result
    accept_result,       \* Shipment.accept_result
    error,               \* the exception the call raised
    sent,                \* url_action of every _transmit_request call
    confirmReqs,         \* documents transmitted under ship_confirm
    acceptReqs,          \* documents transmitted under ship_accept
    acceptResps,         \* responses _transmit_request returned for them
    tnRets,              \* results of the accesses of tracking_numbers
    pkgRet,              \* result of the last list(package_results())
    labelRet,            \* result of the last get_label()
    sink,                \* what save_label wrote to fd
    saveRet,             \* outcome of the last save_label(fd)
    track_result,        \* TrackingInfo.result
    trackError,          \* the exception TrackingInfo(...) raised
    activitiesRet,       \* result of the last shipment_activities
    deliveredRet,        \* result of the last delivered
    inTransitRet         \* result of the last in_transit

shipVars == <<pc, args, file_format, shipping_request, ship_accept_request,
              confirm_result, accept_result, error, sent, confirmReqs,
              acceptReqs, acceptResps>>
accessVars == <<tnRets, pkgRet, labelRet, sink, saveRet>>
trackVars == <<track_result, trackError, activitiesRet, deliveredRet,
               inTransitRet>>
vars == <<debug, shipVars, accessVars, trackVars>>

NoDoc == ShippingRequest(DefaultArgs, "")
NoAccept == Accept("none", FALSE, NoResults)
NoAcceptDoc == [RequestAction |-> "", CustomerContext |-> "",
                ShipmentDigest |-> ""]
NoBytes == [err |-> NoError, v |-> <<>>]
NoList == [err |-> NoError, v |-> <<>>]

NoTrack == [kind |-> "none", hasActivity |-> FALSE,
            activity |-> [t |-> "dict", items |-> <<>>]]
NoDate == [year |-> 0, month |-> 0, day |-> 0]
NoDelivered == [err |-> NoError, isDate |-> FALSE, date |-> NoDate]
NoFlag == [err |-> NoError, v |-> FALSE]

AccessInit ==
    /\ tnRets = <<>>
    /\ pkgRet = Missing(NoList)
    /\ labelRet = Missing(NoBytes)
    /\ sink = <<>>
    /\ saveRet = Missing(NoError)

TrackInit ==
    /\ track_result = Missing(NoTrack)
    /\ trackError = NoError
    /\ activitiesRet = Missing(NoList)
    /\ deliveredRet = Missing(NoDelivered)
    /\ inTransitRet = Missing(NoFlag)

\* UPSConnection.__init__: no Shipment and no TrackingInfo exists yet
Init ==
    /\ debug \in BOOLEAN
    /\ pc = "idle"
    /\ args = Missing(DefaultArgs)
    /\ file_format = ""
    /\ shipping_request = Missing(NoDoc)
    /\ ship_accept_request = Missing(NoAcceptDoc)
    /\ confirm_result = Missing(NoResponse)
    /\ accept_result = Missing(NoAccept)
    /\ error = NoError
    /\ sent = <<>>
    /\ confirmReqs = <<>>
    /\ acceptReqs = <<>>
    /\ acceptResps = <<>>
    /\ AccessInit
    /\ TrackInit

\* ------------------------------------------------- Shipment.__init__ steps
\* create_shipment / Shipment(...) on the new connection: the document is
\* built or the call raises before anything is transmitted
CreateShipmentWith(A) ==
    /\ pc = "idle"
    /\ \E a \in A :
        LET r == BuildRequest(a, ShipperNumber) IN
        /\ args' = Some(a)
        /\ file_format' = a.file_format
        /\ IF r.err = NoError
              THEN /\ pc' = "built"
                   /\ shipping_request' = Some(r.doc)
                   /\ error' = NoError
              ELSE /\ pc' = "raised"
                   /\ shipping_request' = Missing(NoDoc)
                   /\ error' = r.err
    /\ ship_accept_request' = Missing(NoAcceptDoc)
    /\ confirm_result' = Missing(NoResponse)
    /\ accept_result' = Missing(NoAccept)
    /\ sent' = <<>>
    /\ confirmReqs' = <<>>
    /\ acceptReqs' = <<>>
    /\ acceptResps' = <<>>
    /\ tnRets' = <<>>
    /\ pkgRet' = Missing(NoList)
    /\ labelRet' = Missing(NoBytes)
    /\ sink' = <<>>
    /\ saveRet' = Missing(NoError)
    /\ UNCHANGED <<debug, trackVars>>

CreateShipment == CreateShipmentWith(AllArgs)

\* self.confirm_result = _transmit_request('ship_confirm', ...), the digest
\* check and the accept document
ShipConfirm ==
    /\ pc = "built"
    /\ \E resp \in ConfirmResponses :
        LET t == TransmitRequest(debug, resp)
            e == CheckConfirm(resp) IN
        /\ sent' = Append(sent, "ship_confirm")
        /\ confirmReqs' = Append(confirmReqs, shipping_request.v)
        /\ IF t # NoError
              THEN /\ pc' = "raised"
                   /\ error' = t
                   /\ UNCHANGED <<confirm_result, ship_accept_request>>
              ELSE /\ confirm_result' = Some(resp)
                   /\ IF e # NoError
                         THEN /\ pc' = "raised"
                              /\ error' = e
                              /\ UNCHANGED ship_accept_request
                         ELSE /\ pc' = "confirmed"
                              /\ error' = NoError
                              /\ ship_accept_request' =
                                    Some(ShipAcceptRequest(resp))
    /\ UNCHANGED <<debug, args, file_format, shipping_request, accept_result,
                   acceptReqs, acceptResps, accessVars, trackVars>>

\* self.accept_result = _transmit_request('ship_accept', ...): stored
\* unchecked, and the constructor returns
ShipAcceptWith(R) ==
    /\ pc = "confirmed"
    /\ \E resp \in R :
        LET t == TransmitRequest(debug, resp) IN
        /\ sent' = Append(sent, "ship_accept")
        /\ acceptReqs' = Append(acceptReqs, ship_accept_request.v)
        /\ IF t # NoError
              THEN /\ pc' = "raised"
                   /\ error' = t
                   /\ UNCHANGED <<accept_result, acceptResps>>
              ELSE /\ pc' = "returned"
                   /\ error' = NoError
                   /\ accept_result' = Some(resp)
                   /\ acceptResps' = Append(acceptResps, resp)
    /\ UNCHANGED <<debug, args, file_format, shipping_request,
                   ship_accept_request, confirm_result, confirmReqs,
                   accessVars, trackVars>>

ShipAccept == ShipAcceptWith(AcceptSample)

\* ------------------------------------------------------ binascii.a2b_base64
B64Chars ==
    <<"A", "B", "C", "D", "E", "F", "G", "H", "I", "J", "K", "L", "M",
      "N", "O", "P", "Q", "R", "S", "T", "U", "V", "W", "X", "Y", "Z",
      "a", "b", "c", "d", "e", "f", "g", "h", "i", "j", "k", "l", "m",
      "n", "o", "p", "q", "r", "s", "t", "u", "v", "w", "x", "y", "z",
      "0", "1", "2", "3", "4", "5", "6", "7", "8", "9", "+", "/">>

B64Value(c) ==
    IF c = "=" THEN 0
    ELSE (CHOOSE i \in 1..Len(B64Chars) : B64Chars[i] = c) - 1

\* four characters give three bytes, fewer where the quad is padded
DecodeQuad(q) ==
    LET n == B64Value(q[1]) * 262144 + B64Value(q[2]) * 4096 +
             B64Value(q[3]) * 64 + B64Value(q[4])
        bytes == <<n \div 65536, (n \div 256) % 256, n % 256>> IN
    IF q[3] = "=" THEN SubSeq(bytes, 1, 1)
    ELSE IF q[4] = "=" THEN SubSeq(bytes, 1, 2)
    ELSE bytes

RECURSIVE a2b_base64(_)
a2b_base64(chars) ==
    IF Len(chars) < 4 THEN <<>>
    ELSE DecodeQuad(SubSeq(chars, 1, 4)) \o
         a2b_base64(SubSeq(chars, 5, Len(chars)))

\* ------------------------------------------------------ Shipment accessors
\* the path ['ShipmentAcceptResponse']['ShipmentResults']['PackageResults']
AcceptPath(accept) ==
    IF DictResponse(accept) # NoError THEN DictResponse(accept)
    ELSE IF ~accept.hasResults THEN Raised("KeyError", "ShipmentResults")
    ELSE NoError

\* Shipment._convert_pkg_result
ConvertPkgResult(r, ff) ==
    [label |-> r.GraphicImage,
     label_format |-> IF r.LabelImageFormatCode.has
                         THEN r.LabelImageFormatCode.v ELSE ff,
     tracking_number |-> r.TrackingNumber]

\* Shipment.package_results, run to exhaustion: a dict is wrapped in a
\* list, then every entry is converted
PackageResultsNoWrap(accept, ff) ==
    IF AcceptPath(accept) # NoError
        THEN [err |-> AcceptPath(accept), v |-> <<>>]
    ELSE IF accept.results.t = "dict"
        THEN [err |-> Raised("TypeError",
                             "string indices must be integers, not str"),
              v |-> <<>>]
    ELSE [err |-> NoError,
          v |-> [i \in DOMAIN accept.results.items |->
                    ConvertPkgResult(accept.results.items[i], ff)]]

PackageResults(accept, ff) ==
    LET pkg_results == IF accept.results.t = "dict"
                          THEN <<accept.results.items[1]>>
                          ELSE accept.results.items IN
    IF AcceptPath(accept) # NoError
        THEN [err |-> AcceptPath(accept), v |-> <<>>]
        ELSE [err |-> NoError,
              v |-> [i \in DOMAIN pkg_results |->
                        ConvertPkgResult(pkg_results[i], ff)]]

\* Shipment.tracking_numbers
TrackingNumbers(accept, ff) ==
    LET r == PackageResults(accept, ff) IN
    [err |-> r.err,
     v |-> [i \in DOMAIN r.v |-> r.v[i].tracking_number]]

\* Shipment.get_label: PackageResults subscripted by 'LabelImage' as it
\* stands, without the wrapping package_results does
GetLabel(accept) ==
    IF AcceptPath(accept) # NoError
        THEN [err |-> AcceptPath(accept), v |-> <<>>]
    ELSE IF accept.results.t = "list"
        THEN [err |-> Raised("TypeError", ListIndexMsg), v |-> <<>>]
    ELSE IF Len(accept.results.items[1].GraphicImage) % 4 # 0
        THEN [err |-> Raised("Error", "Incorrect padding"), v |-> <<>>]
    ELSE [err |-> NoError,
          v |-> a2b_base64(accept.results.items[1].GraphicImage)]

\* an access of the property tracking_numbers on the returned Shipment
AccessTrackingNumbers ==
    /\ pc = "returned"
    /\ Len(tnRets) < MaxCalls
    /\ tnRets' = Append(tnRets, TrackingNumbers(accept_result.v, file_format))
    /\ UNCHANGED <<debug, shipVars, pkgRet, labelRet, sink, saveRet,
                   trackVars>>

\* list(shipment.package_results())
CallPackageResults ==
    /\ pc = "returned"
    /\ pkgRet' = Some(PackageResults(accept_result.v, file_format))
    /\ UNCHANGED <<debug, shipVars, tnRets, labelRet, sink, saveRet,
                   trackVars>>

\* shipment.get_label()
CallGetLabel ==
    /\ pc = "returned"
    /\ labelRet' = Some(GetLabel(accept_result.v))
    /\ UNCHANGED <<debug, shipVars, tnRets, pkgRet, sink, saveRet,
                   trackVars>>

\* shipment.save_label(fd): fd.write(self.get_label())
SaveLabel ==
    /\ pc = "returned"
    /\ Len(sink) < MaxCalls
    /\ LET r == GetLabel(accept_result.v) IN
        /\ saveRet' = Some(r.err)
        /\ sink' = IF r.err = NoError THEN Append(sink, r.v) ELSE sink
    /\ UNCHANGED <<debug, shipVars, tnRets, pkgRet, labelRet, trackVars>>

\* ------------------------------------------------------------ TrackingInfo
Digits == <<"0", "1", "2", "3", "4", "5", "6", "7", "8", "9">>

DigitValue(c) == (CHOOSE i \in 1..Len(Digits) : Digits[i] = c) - 1

IsLeap(y) == (y % 4 = 0 /\ y % 100 # 0) \/ y % 400 = 0

DaysIn(y, m) ==
    IF m = 2 THEN (IF IsLeap(y) THEN 29 ELSE 28)
    ELSE IF m \in {4, 6, 9, 11} THEN 30 ELSE 31

\* datetime.strptime(text, '%Y%m%d'): four digits of year, two of month,
\* two of day; ValueError when the text is no such calendar date
strptime(text) ==
    LET d(i) == DigitValue(text[i])
        y == d(1) * 1000 + d(2) * 100 + d(3) * 10 + d(4)
        m == d(5) * 10 + d(6)
        dd == d(7) * 10 + d(8) IN
    IF Len(text) # 8 \/ \E i \in 1..Len(text) :
                            \A j \in 1..Len(Digits) : Digits[j] # text[i]
        THEN [err |-> Raised("ValueError", "does not match format"),
              date |-> NoDate]
    ELSE IF m \notin 1..12 \/ y < 1 \/ dd \notin 1..DaysIn(y, m)
        THEN [err |-> Raised("ValueError", "does not match format"),
              date |-> NoDate]
    ELSE [err |-> NoError, date |-> [year |-> y, month |-> m, day |-> dd]]

\* TrackingInfo.shipment_activities: the Activity entry, wrapped in a list
\* when it is not one
ShipmentActivities(result) ==
    IF DictResponse(result) # NoError
        THEN [err |-> DictResponse(result), v |-> <<>>]
    ELSE IF ~result.hasActivity
        THEN [err |-> Raised("KeyError", "Activity"), v |-> <<>>]
    ELSE IF result.activity.t # "list"
        THEN [err |-> NoError, v |-> <<result.activity.items[1]>>]
    ELSE [err |-> NoError, v |-> result.activity.items]

IsCodeD(x) == x.Code = "D"
IsCodeI(x) == x.Code = "I"

\* TrackingInfo.delivered: None when no activity has code D
DeliveredLast(result) ==
    LET acts == ShipmentActivities(result)
        delivered == SelectSeq(acts.v, IsCodeD) IN
    IF acts.err # NoError
        THEN [err |-> acts.err, isDate |-> FALSE, date |-> NoDate]
    ELSE IF delivered # <<>>
        THEN [err |-> strptime(delivered[Len(delivered)].Date).err,
              isDate |-> strptime(delivered[Len(delivered)].Date).err = NoError,
              date |-> strptime(delivered[Len(delivered)].Date).date]
    ELSE [err |-> NoError, isDate |-> FALSE, date |-> NoDate]

Delivered(result) ==
    LET acts == ShipmentActivities(result)
        delivered == SelectSeq(acts.v, IsCodeD) IN
    IF acts.err # NoError
        THEN [err |-> acts.err, isDate |-> FALSE, date |-> NoDate]
    ELSE IF delivered # <<>>
        THEN [err |-> strptime(delivered[1].Date).err,
              isDate |-> strptime(delivered[1].Date).err = NoError,
              date |-> strptime(delivered[1].Date).date]
    ELSE [err |-> NoError, isDate |-> FALSE, date |-> NoDate]

\* TrackingInfo.in_transit
InTransit(result) ==
    LET acts == ShipmentActivities(result) IN
    [err |-> acts.err,
     v |-> acts.err = NoError /\ SelectSeq(acts.v, IsCodeI) # <<>>]

Activities ==
    [Code : {"D", "I", "X"},
     Date : {<<"2", "0", "2", "4", "0", "2", "2", "9">>,
             <<"2", "0", "2", "3", "1", "2", "3", "1">>}]

Track(kind, hasActivity, activity) ==
    [kind |-> kind, hasActivity |-> hasActivity, activity |-> activity]

\* Activity as xmltodict gives it: one element is a dict, several a list
TrackResponses ==
    {Track("transport_failure", FALSE, NoTrack.activity),
     Track("malformed", FALSE, NoTrack.activity),
     Track("xml", FALSE, NoTrack.activity)} \cup
    {Track("xml", TRUE, [t |-> "dict", items |-> <<x>>]) :
        x \in Activities} \cup
    {Track("xml", TRUE, [t |-> "list", items |-> xs]) :
        xs \in {q \in SeqsUpTo(Activities, MaxActivities) : Len(q) >= 2}}

\* tracking_info / TrackingInfo(...) on the new connection
TrackingInfoNew ==
    /\ ~track_result.has
    /\ trackError = NoError
    /\ \E resp \in TrackResponses :
        LET t == TransmitRequest(debug, resp) IN
        IF t # NoError
            THEN /\ trackError' = t
                 /\ UNCHANGED track_result
            ELSE /\ track_result' = Some(resp)
                 /\ UNCHANGED trackError
    /\ UNCHANGED <<debug, shipVars, accessVars, activitiesRet, deliveredRet,
                   inTransitRet>>

AccessShipmentActivities ==
    /\ track_result.has
    /\ activitiesRet' = Some(ShipmentActivities(track_result.v))
    /\ UNCHANGED <<debug, shipVars, accessVars, track_result, trackError,
                   deliveredRet, inTransitRet>>

AccessDelivered ==
    /\ track_result.has
    /\ deliveredRet' = Some(Delivered(track_result.v))
    /\ UNCHANGED <<debug, shipVars, accessVars, track_result, trackError,
                   activitiesRet, inTransitRet>>

AccessInTransit ==
    /\ track_result.has
    /\ inTransitRet' = Some(InTransit(track_result.v))
    /\ UNCHANGED <<debug, shipVars, accessVars, track_result, trackError,
                   activitiesRet, deliveredRet>>

\* ---------------------------------------------------------- specifications
\* the construction of one Shipment, over every argument combination
Next == CreateShipment \/ ShipConfirm \/ ShipAccept

Spec == Init /\ [][Next]_vars

\* one Shipment built from plain arguments, over every accept response,
\* and the accessors of the returned object
PlainArgs ==
    {a \in AllArgs : /\ a.reference_numbers = <<>>
                     /\ a.delivery_confirmation = Missing("")
                     /\ a.description = ""
                     /\ a.from_country = "US"}

CreatePlainShipment == CreateShipmentWith(PlainArgs)

ShipAcceptAny == ShipAcceptWith(AcceptResponses)

NextAccessors ==
    \/ CreatePlainShipment
    \/ ShipConfirm
    \/ ShipAcceptAny
    \/ AccessTrackingNumbers
    \/ CallPackageResults
    \/ CallGetLabel
    \/ SaveLabel

AccessorSpec == Init /\ [][NextAccessors]_vars

\* one tracking query and its derived properties
NextTracking ==
    \/ TrackingInfoNew
    \/ AccessShipmentActivities
    \/ AccessDelivered
    \/ AccessInTransit

TrackSpec == Init /\ [][NextTracking]_vars

\* ------------------------------------------------------------- properties
Started == args.has
Count(op) == Cardinality({i \in DOMAIN sent : sent[i] = op})
Rejected ==
    /\ confirm_result.has
    /\ confirm_result.v.kind = "xml"
    /\ confirm_result.v.hasRoot
    /\ ~confirm_result.v.hasDigest
PackageRefs(doc) ==
    {i \in DOMAIN doc.Shipment.Package.items :
        doc.Shipment.Package.items[i].ReferenceNumber.has}
HasPackageResults ==
    /\ pc = "returned"
    /\ accept_result.v.kind = "xml"
    /\ accept_result.v.hasResults
HasActivities ==
    /\ track_result.has
    /\ track_result.v.kind = "xml"
    /\ track_result.v.hasActivity
DeliveredAt ==
    {i \in DOMAIN track_result.v.activity.items :
        track_result.v.activity.items[i].Code = "D"}
FirstOf(S) == CHOOSE i \in S : \A j \in S : i <= j
DateNumber(text) ==
    DigitValue(text[1]) * 10000000 + DigitValue(text[2]) * 1000000 +
    DigitValue(text[3]) * 100000 + DigitValue(text[4]) * 10000 +
    DigitValue(text[5]) * 1000 + DigitValue(text[6]) * 100 +
    DigitValue(text[7]) * 10 + DigitValue(text[8])

\* C1: a confirm response holding ShipmentConfirmResponse without a
\* ShipmentDigest makes the construction raise, the message being the
\* response's Response/Error/ErrorDescription text, and no ship_accept
\* request is transmitted.
C1_RejectedConfirmRaises ==
    Rejected =>
        /\ pc = "raised"
        /\ Count("ship_accept") = 0
        /\ acceptReqs = <<>>
        /\ confirm_result.v.hasError =>
                error = Raised("Exception", confirm_result.v.errDesc)

C1_Witness ==
    /\ Rejected
    /\ confirm_result.v.hasError
    /\ confirm_result.v.errDesc = "Invalid postal code"
    /\ pc = "raised"
    /\ sent = <<"ship_confirm">>

\* C2 as stated, on the constructions whose arguments reach neither the
\* package-level delivery confirmation nor the package-level reference
\* list: every construction transmits exactly one ship_confirm, then at
\* most one ship_accept, sent only after a digest; a Shipment is returned
\* only with both results stored, an error otherwise.
C2_ExactlyOneConfirm ==
    (Started
        /\ args.v.delivery_confirmation.v \notin DOMAIN DCIS_TYPES
        /\ ~(args.v.reference_numbers # <<>> /\ args.v.from_country = "US"
                /\ args.v.to_country = "US")) =>
        /\ pc \in {"raised", "returned"} => Count("ship_confirm") = 1
        /\ Count("ship_accept") <= 1
        /\ Count("ship_accept") = 1 =>
                confirm_result.has /\ confirm_result.v.hasDigest
        /\ pc = "returned" => confirm_result.has /\ accept_result.has
        /\ pc = "raised" => error # NoError

\* C2 as amended: at most one ship_confirm is transmitted (none when
\* building the request document raises, exactly one once it is built and
\* the call has gone on), then at most one ship_accept, sent only after a
\* confirm response carrying a digest; nothing is repeated; a Shipment is
\* returned only with both results stored and no error, and every other
\* outcome is an error and no Shipment.
C2_AllOrFail ==
    /\ sent \in {<<>>, <<"ship_confirm">>, <<"ship_confirm", "ship_accept">>}
    /\ Len(confirmReqs) = Count("ship_confirm")
    /\ Len(acceptReqs) = Count("ship_accept")
    /\ sent = <<>> <=> (pc \in {"idle", "built"} \/
                        (pc = "raised" /\ ~confirm_result.has
                            /\ confirmReqs = <<>>))
    /\ pc \in {"confirmed", "returned"} => Count("ship_confirm") = 1
    /\ Count("ship_accept") = 1 =>
            /\ confirm_result.has
            /\ confirm_result.v.kind = "xml"
            /\ confirm_result.v.hasDigest
    /\ pc = "returned" <=> accept_result.has
    /\ pc = "returned" =>
            /\ confirm_result.has
            /\ error = NoError
            /\ sent = <<"ship_confirm", "ship_accept">>
    /\ pc = "raised" => error # NoError /\ ~accept_result.has

C2_Witness ==
    /\ pc = "returned"
    /\ sent = <<"ship_confirm", "ship_accept">>
    /\ confirm_result.has
    /\ accept_result.has

\* C3: the ship_accept request carries the ShipmentDigest of the confirm
\* response of the same construction, unchanged, and the stored accept
\* result is the response to that request.
C3_AcceptCarriesDigest ==
    /\ \A i \in DOMAIN acceptReqs :
            /\ confirm_result.has
            /\ confirm_result.v.hasDigest
            /\ acceptReqs[i].ShipmentDigest = confirm_result.v.digest
    /\ pc = "confirmed" =>
            ship_accept_request.v.ShipmentDigest = confirm_result.v.digest
    /\ pc = "returned" =>
            /\ Len(acceptReqs) = 1
            /\ Len(acceptResps) = 1
            /\ accept_result.v = acceptResps[1]

C3_Witness ==
    /\ pc = "returned"
    /\ confirm_result.v.digest = "c2hpcA"
    /\ acceptReqs = <<ShipAcceptRequest(confirm_result.v)>>
    /\ accept_result.v.hasResults

\* C4: with a non-empty reference list (and no delivery confirmation), a
\* US to US shipment is transmitted with the list under the package block
\* and no shipment-level Description; any other with the list and the
\* caller's description under the shipment block and none under the
\* package block.
C4_ReferencePlacement ==
    (Started /\ args.v.reference_numbers # <<>>
        /\ ~Truthy(args.v.delivery_confirmation)) =>
        /\ shipping_request.has
        /\ pc # "built" => confirmReqs = <<shipping_request.v>>
        /\ IF args.v.from_country = "US" /\ args.v.to_country = "US"
              THEN /\ PackageRefs(shipping_request.v) # {}
                   /\ ~shipping_request.v.Shipment.Description.has
                   /\ ~shipping_request.v.Shipment.ReferenceNumber.has
              ELSE /\ PackageRefs(shipping_request.v) = {}
                   /\ shipping_request.v.Shipment.Description =
                            Some(args.v.description)
                   /\ shipping_request.v.Shipment.ReferenceNumber.has
                   /\ Len(shipping_request.v.Shipment.ReferenceNumber.v) =
                            Len(args.v.reference_numbers)

\* C5: with a delivery_confirmation key of DCIS_TYPES (and no reference
\* numbers), whatever the number of packages, ship_confirm is transmitted
\* and the package's PackageServiceOptions carries DeliveryConfirmation /
\* DCISType equal to the code of the key.
C5_DeliveryConfirmationSent ==
    (Started /\ args.v.delivery_confirmation.has
        /\ args.v.delivery_confirmation.v \in DOMAIN DCIS_TYPES
        /\ args.v.reference_numbers = <<>>) =>
        /\ shipping_request.has
        /\ pc # "built" => confirmReqs = <<shipping_request.v>>
        /\ \A i \in DOMAIN shipping_request.v.Shipment.Package.items :
            shipping_request.v.Shipment.Package.items[i]
                .PackageServiceOptions.DeliveryConfirmation =
                    Some(DCIS_TYPES[args.v.delivery_confirmation.v])

\* C6: a non-empty delivery_confirmation key that is not in DCIS_TYPES
\* makes the construction raise KeyError for that key before anything is
\* transmitted: no ship_confirm, no ship_accept, no Shipment.
C6_UnknownKeyRaises ==
    (Started /\ Truthy(args.v.delivery_confirmation)
        /\ args.v.delivery_confirmation.v \notin DOMAIN DCIS_TYPES) =>
        /\ pc = "raised"
        /\ error = Raised("KeyError", args.v.delivery_confirmation.v)
        /\ sent = <<>>
        /\ confirmReqs = <<>>
        /\ acceptReqs = <<>>
        /\ ~confirm_result.has
        /\ ~accept_result.has

C6_Witness ==
    /\ Started
    /\ args.v.delivery_confirmation = Some("signature")
    /\ pc = "raised"
    /\ error.kind = "KeyError"

\* C7: on a tracking response with one activity (a bare record) or with
\* several, delivered is a date exactly when some activity has status code
\* D, the date being the Date of the first such activity in response
\* order; with no such activity it is None, and nothing is raised.
C7_DeliveredFirstD ==
    (HasActivities /\ deliveredRet.has) =>
        /\ deliveredRet.v.err = NoError
        /\ deliveredRet.v.isDate <=> DeliveredAt # {}
        /\ DeliveredAt # {} =>
            deliveredRet.v.date.year * 10000 +
            deliveredRet.v.date.month * 100 + deliveredRet.v.date.day =
                DateNumber(track_result.v.activity
                            .items[FirstOf(DeliveredAt)].Date)
        /\ DeliveredAt = {} => deliveredRet.v.date = NoDate

C7_Witness ==
    /\ HasActivities
    /\ deliveredRet.has
    /\ deliveredRet.v.isDate
    /\ Cardinality(DeliveredAt) >= 2
    /\ 1 \notin DeliveredAt
    /\ \E i \in DeliveredAt :
        track_result.v.activity.items[i].Date #
            track_result.v.activity.items[FirstOf(DeliveredAt)].Date

\* C8: on a returned Shipment whose accept response holds one or more
\* package results, get_label gives the base64-decoded bytes of the
\* GraphicImage of the first (or only) one, and save_label writes exactly
\* those bytes to the sink.
C8_LabelOfFirstPackage ==
    HasPackageResults =>
        /\ labelRet.has =>
            labelRet.v =
                [err |-> NoError,
                 v |-> a2b_base64(accept_result.v.results
                                    .items[1].GraphicImage)]
        /\ saveRet.has =>
            /\ saveRet.v = NoError
            /\ sink # <<>>
            /\ sink[Len(sink)] =
                a2b_base64(accept_result.v.results.items[1].GraphicImage)

C10_ReferenceCodes ==
    \A r \in DOMAIN confirmReqs :
        confirmReqs[r].Shipment.ReferenceNumber.has =>
            \A j \in DOMAIN args.v.reference_numbers :
                LET given == args.v.reference_numbers[j]
                    built == confirmReqs[r].Shipment.ReferenceNumber.v[j] IN
                IF given.t = "tuple" /\ Len(given.items) = 2
                    THEN built = [Code |-> given.items[1],
                                  Value |-> given.items[2]]
                    ELSE built = [Code |-> PyInt(j), Value |-> given]

====
